---------------------------- MODULE Spec2Model ----------------------------
(***************************************************************************)
(* A model of s3-mp-upload.py: the size parser chunk_bytes, the           *)
(* destination key resolution and pre-flight probes of main, and main's   *)
(* upload retry loop with its progress callback.                          *)
(*                                                                         *)
(* Python strings are modelled as sequences of one-character strings, so  *)
(* that parsing is computed character by character.  Python integers are  *)
(* unbounded; byte counts reach 1024**8, so they are kept exactly as      *)
(* m * 2^e2 * 5^e5 with m coprime to 10 (every unit multiplier is a       *)
(* product of powers of 2 and 5).  The encoding is canonical: two byte    *)
(* counts are equal integers iff their records are equal.                 *)
(***************************************************************************)
EXTENDS Integers, Sequences, FiniteSets, TLC

VARIABLES
    args,            \* the arguments of main (never assigned by main)
    dict_order,      \* iteration order of the UNIT_MULTIPLIERS dict in this build
    pc,              \* main's position
    chunk_size,      \* main: chunk_size
    s3_dest_obj,     \* main: s3_dest_obj
    config,          \* main: config (TransferConfig)
    callback_fn,     \* main: callback_fn (None or a ProgressPercentage)
    retry_interval,  \* main: retry_interval
    last_exception,  \* main: last_exception
    attempt,         \* main: attempt (index of the for loop)
    reports,         \* number of progress callbacks made by the running upload_file
    log,             \* history: storage-client operations and sleeps, in order
    outcome,         \* how main ended: returned or raised
    lock,            \* ProgressPercentage._lock: 0 when free, else the thread holding it
    workers,         \* the threads of upload_file that call callback_fn
    stdout,          \* the progress line last written to sys.stdout
    reported         \* history: sum of the bytes_amount of all calls of callback_fn

\* the state of the transfer's worker threads
pool_vars == <<lock, workers, stdout, reported>>

vars == <<args, dict_order, pc, chunk_size, s3_dest_obj, config, callback_fn,
          retry_interval, last_exception, attempt, reports, log, outcome, pool_vars>>

-----------------------------------------------------------------------------
(* Bounds of the model *)

MaxTries == 3        \* largest max_tries argument tried
MaxReports == 2      \* progress callbacks per upload attempt
MaxBytes == 2        \* largest bytes_amount of one progress callback
MaxChunkLen == 4     \* longest raw size expression
MaxSpaces == 2       \* longest whitespace run in a composed size expression
MaxPathLen == 5      \* longest destination path
MaxThreads == 3      \* most worker threads of one upload_file

-----------------------------------------------------------------------------
(* Characters and strings *)

DigitChars == {"0", "1", "2", "3", "4", "5", "6", "7", "8", "9"}

\* characters matched by \s in the regular expression
WhitespaceChars == {" ", "\t"}

DigitVal(c) ==
    CASE c = "0" -> 0 [] c = "1" -> 1 [] c = "2" -> 2 [] c = "3" -> 3
      [] c = "4" -> 4 [] c = "5" -> 5 [] c = "6" -> 6 [] c = "7" -> 7
      [] c = "8" -> 8 [] c = "9" -> 9

\* str.lower() on one character
LowerChar(c) ==
    CASE c = "B" -> "b" [] c = "E" -> "e" [] c = "G" -> "g" [] c = "I" -> "i"
      [] c = "K" -> "k" [] c = "M" -> "m" [] c = "P" -> "p" [] c = "T" -> "t"
      [] c = "Y" -> "y" [] c = "Z" -> "z" [] OTHER -> c

str_lower(s) == [i \in 1..Len(s) |-> LowerChar(s[i])]

str_isdigit(s) == Len(s) > 0 /\ \A i \in 1..Len(s) : s[i] \in DigitChars

str_contains(s, c) == \E i \in 1..Len(s) : s[i] = c

str_endswith(s, suffix) ==
    /\ Len(s) >= Len(suffix)
    /\ SubSeq(s, Len(s) - Len(suffix) + 1, Len(s)) = suffix

str_startswith(s, prefix) ==
    /\ Len(s) >= Len(prefix)
    /\ SubSeq(s, 1, Len(prefix)) = prefix

\* int(s) for a string of digits
RECURSIVE int_of(_)
int_of(s) ==
    IF s = <<>> THEN 0
    ELSE 10 * int_of(SubSeq(s, 1, Len(s) - 1)) + DigitVal(s[Len(s)])

\* length of the longest run of characters of cs in s starting at position i
RECURSIVE RunLen(_, _, _)
RunLen(s, i, cs) ==
    IF i <= Len(s) /\ s[i] \in cs THEN 1 + RunLen(s, i + 1, cs) ELSE 0

RECURSIVE RunLenNot(_, _, _)
RunLenNot(s, i, cs) ==
    IF i <= Len(s) /\ s[i] \notin cs THEN 1 + RunLenNot(s, i + 1, cs) ELSE 0

-----------------------------------------------------------------------------
(* Exact unbounded integers: the record [m, e2, e5] is m * 2^e2 * 5^e5 *)

RECURSIVE BigNorm(_, _, _)
BigNorm(m, a, b) ==
    IF m = 0 THEN [m |-> 0, e2 |-> 0, e5 |-> 0]
    ELSE IF m % 2 = 0 THEN BigNorm(m \div 2, a + 1, b)
    ELSE IF m % 5 = 0 THEN BigNorm(m \div 5, a, b + 1)
    ELSE [m |-> m, e2 |-> a, e5 |-> b]

BigOfInt(n) == BigNorm(n, 0, 0)

\* x * y
BigMul(x, y) == BigNorm(x.m * y.m, x.e2 + y.e2, x.e5 + y.e5)

RECURSIVE IntPow(_, _)
IntPow(b, n) == IF n = 0 THEN 1 ELSE b * IntPow(b, n - 1)

\* base ** exp
BigPow(base, exp) ==
    LET b == BigOfInt(base)
    IN  BigNorm(IntPow(b.m, exp), b.e2 * exp, b.e5 * exp)

-----------------------------------------------------------------------------
(* UNIT_MULTIPLIERS and DEFAULTS *)

\* the dict literal, in source order; each value is base ** exp
UNIT_TABLE == <<
    [name |-> <<"b", "y", "t", "e">>, base |-> 1, exp |-> 1],
    [name |-> <<"k", "i", "l", "o", "b", "y", "t", "e">>, base |-> 1000, exp |-> 1],
    [name |-> <<"k", "B">>, base |-> 1000, exp |-> 1],
    [name |-> <<"k", "i", "b", "i", "b", "y", "t", "e">>, base |-> 1024, exp |-> 1],
    [name |-> <<"K", "i", "B">>, base |-> 1024, exp |-> 1],
    [name |-> <<"K", "B">>, base |-> 1024, exp |-> 1],
    [name |-> <<"m", "e", "g", "a", "b", "y", "t", "e">>, base |-> 1000, exp |-> 2],
    [name |-> <<"M", "B">>, base |-> 1000, exp |-> 2],
    [name |-> <<"m", "e", "b", "i", "b", "y", "t", "e">>, base |-> 1024, exp |-> 2],
    [name |-> <<"M", "i", "B">>, base |-> 1024, exp |-> 2],
    [name |-> <<"g", "i", "g", "a", "b", "y", "t", "e">>, base |-> 1000, exp |-> 3],
    [name |-> <<"G", "B">>, base |-> 1000, exp |-> 3],
    [name |-> <<"g", "i", "b", "i", "b", "y", "t", "e">>, base |-> 1024, exp |-> 3],
    [name |-> <<"G", "i", "B">>, base |-> 1024, exp |-> 3],
    [name |-> <<"t", "e", "r", "a", "b", "y", "t", "e">>, base |-> 1000, exp |-> 4],
    [name |-> <<"T", "B">>, base |-> 1000, exp |-> 4],
    [name |-> <<"t", "e", "b", "i", "b", "y", "t", "e">>, base |-> 1024, exp |-> 4],
    [name |-> <<"T", "i", "B">>, base |-> 1024, exp |-> 4],
    [name |-> <<"p", "e", "t", "a", "b", "y", "t", "e">>, base |-> 1000, exp |-> 5],
    [name |-> <<"P", "B">>, base |-> 1000, exp |-> 5],
    [name |-> <<"p", "e", "b", "i", "b", "y", "t", "e">>, base |-> 1024, exp |-> 5],
    [name |-> <<"P", "i", "B">>, base |-> 1024, exp |-> 5],
    [name |-> <<"e", "x", "a", "b", "y", "t", "e">>, base |-> 1000, exp |-> 6],
    [name |-> <<"E", "B">>, base |-> 1000, exp |-> 6],
    [name |-> <<"e", "x", "b", "i", "b", "y", "t", "e">>, base |-> 1024, exp |-> 6],
    [name |-> <<"E", "i", "B">>, base |-> 1024, exp |-> 6],
    [name |-> <<"z", "e", "t", "t", "a", "b", "y", "t", "e">>, base |-> 1000, exp |-> 7],
    [name |-> <<"Z", "B">>, base |-> 1000, exp |-> 7],
    [name |-> <<"z", "e", "b", "i", "b", "y", "t", "e">>, base |-> 1024, exp |-> 7],
    [name |-> <<"Z", "i", "B">>, base |-> 1024, exp |-> 7],
    [name |-> <<"y", "o", "t", "t", "a", "b", "y", "t", "e">>, base |-> 1000, exp |-> 8],
    [name |-> <<"Y", "B">>, base |-> 1000, exp |-> 8],
    [name |-> <<"y", "o", "b", "i", "b", "y", "t", "e">>, base |-> 1024, exp |-> 8],
    [name |-> <<"Y", "i", "B">>, base |-> 1024, exp |-> 8]
>>

UNIT_NAMES == {UNIT_TABLE[i].name : i \in 1..Len(UNIT_TABLE)}

\* UNIT_MULTIPLIERS[name]
UNIT_MULTIPLIERS(name) ==
    LET i == CHOOSE j \in 1..Len(UNIT_TABLE) : UNIT_TABLE[j].name = name
    IN  BigPow(UNIT_TABLE[i].base, UNIT_TABLE[i].exp)

\* Orders in which "for mp_name in UNIT_MULTIPLIERS" may visit the keys.  The
\* order of a dict is fixed by the interpreter build, not by the program: it
\* is any one order, here the literal's order or its reverse.
LiteralOrder == [i \in 1..Len(UNIT_TABLE) |-> UNIT_TABLE[i].name]

DictOrders ==
    { LiteralOrder,
      [i \in 1..Len(UNIT_TABLE) |-> UNIT_TABLE[Len(UNIT_TABLE) + 1 - i].name] }

DEFAULT_p_transfers == 2
DEFAULT_max_tries == 10
DEFAULT_split == <<"5", "0", " ", "M", "i", "B">>
DEFAULT_chunk_threshold == <<"5", "0", " ", "M", "i", "B">>
DEFAULT_retry_sleep == 10

-----------------------------------------------------------------------------
(* Exceptions and results *)

Exc(type, text) == [type |-> type, text |-> text, key |-> <<>>, bucket |-> "", at |-> 0]

NoExc == Exc("", "")

Returned(v) == [ok |-> TRUE, value |-> v, exc |-> NoExc]

Raised(e) == [ok |-> FALSE, value |-> BigOfInt(0), exc |-> e]

-----------------------------------------------------------------------------
(* chunk_bytes *)

\* re.match(r'^(\d+)\s*(\S+)?', s): nothing after (\d+) is required, so the
\* greedy match is the match; group 2 is None when no non-space follows
re_match(s) ==
    LET d == RunLen(s, 1, DigitChars)
        w == RunLen(s, d + 1, WhitespaceChars)
        t == RunLenNot(s, d + w + 1, WhitespaceChars)
    IN  [matched |-> d > 0,
         count_s |-> SubSeq(s, 1, d),
         multiplier_is_None |-> t = 0,
         multiplier |-> SubSeq(s, d + w + 1, d + w + t)]

\* for mp_name in UNIT_MULTIPLIERS: if multiplier.lower() == mp_name.lower():
\* matching_multiplier = mp_name; break.   <<>> stands for None.
RECURSIVE scan_units(_, _, _)
scan_units(order, i, multiplier) ==
    IF i > Len(order) THEN <<>>
    ELSE IF str_lower(multiplier) = str_lower(order[i]) THEN order[i]
    ELSE scan_units(order, i + 1, multiplier)

\* a lookup that skips the exact, case-sensitive test
find_multiplier_scan_first(multiplier) == scan_units(dict_order, 1, multiplier)

\* if multiplier in UNIT_MULTIPLIERS: ... else: the case-insensitive scan

find_multiplier(multiplier) ==
    IF multiplier \in UNIT_NAMES THEN multiplier
    ELSE scan_units(dict_order, 1, multiplier)

chunk_bytes_tail(chunk_string, default_unit, default_multiplier) ==
    LET result == re_match(chunk_string)
        count == int_of(result.count_s)
        multiplier0 == IF result.multiplier_is_None THEN default_multiplier
                       ELSE result.multiplier
        multiplier == IF str_endswith(str_lower(multiplier0), <<"b", "y", "t", "e", "s">>)
                      THEN SubSeq(multiplier0, 1, Len(multiplier0) - 1)
                      ELSE multiplier0
        matching_multiplier == find_multiplier(multiplier)
    IN  IF ~result.matched
        THEN Raised(Exc("RuntimeError", "Could not parse split string"))
        ELSE IF matching_multiplier = <<>>
        THEN Raised(Exc("ValueError", "Invalid units specified in split string"))
        ELSE Returned(BigMul(UNIT_MULTIPLIERS(default_unit),
                             BigMul(UNIT_MULTIPLIERS(matching_multiplier), BigOfInt(count))))

chunk_bytes(chunk_string, default_unit, default_multiplier) ==
    IF str_isdigit(chunk_string)
    THEN Returned(BigMul(UNIT_MULTIPLIERS(default_unit),
                         BigMul(UNIT_MULTIPLIERS(default_multiplier),
                                BigOfInt(int_of(chunk_string)))))
    ELSE IF str_contains(chunk_string, ".")
    THEN Raised(Exc("ValueError", "Split string must use whole numbers!"))
    ELSE chunk_bytes_tail(chunk_string, default_unit, default_multiplier)

\* chunk_bytes(s) with the default arguments of its signature
chunk_bytes_default(s) == chunk_bytes(s, <<"b", "y", "t", "e">>, <<"M", "i", "B">>)

-----------------------------------------------------------------------------
(* Library functions main uses on strings *)

\* os.path.split(p)[1]: what follows the last "/"
RECURSIVE os_path_split_tail(_)
os_path_split_tail(p) ==
    IF p = <<>> \/ p[Len(p)] = "/" THEN <<>>
    ELSE Append(os_path_split_tail(SubSeq(p, 1, Len(p) - 1)), p[Len(p)])

\* os.path.join(a, b)
os_path_join(a, b) ==
    IF str_startswith(b, <<"/">>) THEN b
    ELSE IF a = <<>> \/ str_endswith(a, <<"/">>) THEN a \o b
    ELSE a \o <<"/">> \o b

\* s.lstrip("/")
RECURSIVE str_lstrip_slash(_)
str_lstrip_slash(s) ==
    IF s # <<>> /\ s[1] = "/" THEN str_lstrip_slash(Tail(s)) ELSE s

-----------------------------------------------------------------------------
(* ProgressPercentage *)

None == [is_None |-> TRUE, filename |-> <<>>, seen_so_far |-> 0]

\* ProgressPercentage.__init__(filename)
ProgressPercentage(filename) ==
    [is_None |-> FALSE, filename |-> filename, seen_so_far |-> 0]

\* ProgressPercentage.__call__(bytes_amount), run under self._lock
ProgressPercentage_call(self, bytes_amount) ==
    [self EXCEPT !.seen_so_far = @ + bytes_amount]

-----------------------------------------------------------------------------
(* History of the calls main makes on the storage client and on time.sleep *)

Ev(op, res) ==
    [op |-> op, res |-> res, attempt |-> 0, secs |-> 0, seen |-> 0,
     progressed |-> FALSE, exc |-> NoExc, file |-> <<>>, bucket |-> "", key |-> <<>>]

Ops(op) == {i \in 1..Len(log) : log[i].op = op}

Count(op) == Cardinality(Ops(op))

-----------------------------------------------------------------------------
(* Arguments of main *)

SrcNames == { <<"f">>, <<"d", "/", "f">> }

PathChars == {"/", "a", "b"}

Strings(chars, n) == UNION {[1..k -> chars] : k \in 0..n}

\* urlsplit(dest): scheme, netloc and path.  The bucket is named, and after a
\* netloc the path is empty or begins with "/".
Dests(paths) ==
    {d \in [scheme : {"s3", "http"}, netloc : {"bucket"}, path : paths] :
        d.path = <<>> \/ d.path[1] = "/"}

MainPaths == { <<>>, <<"/", "a">> }

MainDests == Dests(MainPaths)

\* no unit of these depends on the order of the dict
MainChunks ==
    { DEFAULT_split, <<"5">>, <<"5", "1", "2", "0", "0", "K", "i", "B">>,
      <<"5", ".", "5">>, <<"M", "B">> }

\* size expressions: every short string, and count, spaces, unit, tail
ChunkChars == {"5", " ", ".", "k", "K", "B"}

UnitTokens ==
    UNIT_NAMES
    \cup {str_lower(n) : n \in UNIT_NAMES}
    \cup {n \o <<"s">> : n \in UNIT_NAMES}
    \cup { <<"K", "b">>, <<"M", "I", "B">>, <<"B">>, <<"b", "y", "t", "e", "s", "s">>,
           <<"B", "Y", "T", "E", "S">> }

Spaces(n) == [i \in 1..n |-> " "]

ComposedChunks ==
    {c \o Spaces(w) \o u \o t :
        c \in { <<"5">>, <<"0", "7">>, <<"1", "0", "2", "4">> },
        w \in 0..MaxSpaces,
        u \in UnitTokens \cup { <<>> },
        t \in { <<>>, <<" ">>, <<" ", "x">>, <<".">> }}

ChunkStrings == Strings(ChunkChars, MaxChunkLen) \cup ComposedChunks

ErrTypes == {"S3UploadFailedError", "IOError"}

Args(src_names, dests, chunks, tries, sleeps) ==
    [src_name : src_names, dest : dests, num_processes : {DEFAULT_p_transfers},
     force : BOOLEAN, chunk : chunks, verbose : BOOLEAN,
     max_tries : tries, retry_sleep : sleeps]

-----------------------------------------------------------------------------
(* main *)

NoConfig ==
    [multipart_threshold |-> BigOfInt(0), multipart_chunksize |-> BigOfInt(0),
     max_concurrency |-> 0]

Running == [status |-> "running", exc |-> NoExc]

\* nothing written yet
NoLine == [filename |-> <<>>, seen_so_far |-> 0]

\* no worker thread runs outside upload_file
NoPool ==
    /\ lock = 0
    /\ workers = <<>>
    /\ stdout = NoLine
    /\ reported = 0

\* the state on entry to main: no local is assigned yet
Entry(argset, orders) ==
    /\ args \in argset
    /\ dict_order \in orders
    /\ pc = "chunk"
    /\ chunk_size = BigOfInt(0)
    /\ s3_dest_obj = <<>>
    /\ config = NoConfig
    /\ callback_fn = None
    /\ retry_interval = 0
    /\ last_exception = NoExc
    /\ attempt = 0
    /\ reports = 0
    /\ log = <<>>
    /\ outcome = Running
    /\ NoPool

Init ==
    Entry(Args({ <<"d", "/", "f">> }, MainDests, MainChunks,
               (0 - 1)..MaxTries, {1, DEFAULT_retry_sleep}),
          {LiteralOrder})

\* an exception leaves main
Raise(e) ==
    /\ pc' = "done"
    /\ outcome' = [status |-> "raised", exc |-> e]

\* chunk_size = chunk_bytes(chunk)
ParseChunk ==
    /\ pc = "chunk"
    /\ LET r == chunk_bytes_default(args.chunk)
       IN  IF r.ok
           THEN /\ chunk_size' = r.value
                /\ pc' = "scheme"
                /\ UNCHANGED outcome
           ELSE /\ Raise(r.exc)
                /\ UNCHANGED chunk_size
    /\ UNCHANGED <<pool_vars, args, dict_order, s3_dest_obj, config, callback_fn, retry_interval,
                   last_exception, attempt, reports, log>>

\* the scheme is not looked at
CheckScheme_any ==
    /\ pc = "scheme"
    /\ pc' = "head_bucket"
    /\ UNCHANGED <<pool_vars, args, dict_order, chunk_size, s3_dest_obj, config, callback_fn,
                   retry_interval, last_exception, attempt, reports, log, outcome>>

\* dest_uri_parts.scheme != "s3"; s3_bucket, s3_dest_path; boto3.client
CheckScheme ==
    /\ pc = "scheme"
    /\ IF args.dest.scheme # "s3"
       THEN Raise(Exc("ValueError", "Destination needs to be an S3 url!"))
       ELSE pc' = "head_bucket" /\ UNCHANGED outcome
    /\ UNCHANGED <<pool_vars, args, dict_order, chunk_size, s3_dest_obj, config, callback_fn,
                   retry_interval, last_exception, attempt, reports, log>>

\* a failed bucket probe is logged and main goes on
HeadBucket_swallow ==
    /\ pc = "head_bucket"
    /\ \E res \in {"ok", "ClientError", "EndpointConnectionError"} :
        log' = Append(log, [Ev("head_bucket", res) EXCEPT !.bucket = args.dest.netloc])
    /\ pc' = "resolve"
    /\ UNCHANGED <<pool_vars, args, dict_order, chunk_size, s3_dest_obj, config, callback_fn,
                   retry_interval, last_exception, attempt, reports, outcome>>

\* client.head_bucket(Bucket=s3_bucket); any exception leaves main
HeadBucket ==
    /\ pc = "head_bucket"
    /\ \E res \in {"ok", "ClientError", "EndpointConnectionError"} :
        /\ log' = Append(log, [Ev("head_bucket", res) EXCEPT !.bucket = args.dest.netloc])
        /\ IF res = "ok"
           THEN pc' = "resolve" /\ UNCHANGED outcome
           ELSE Raise(Exc(res, "head_bucket"))
    /\ UNCHANGED <<pool_vars, args, dict_order, chunk_size, s3_dest_obj, config, callback_fn,
                   retry_interval, last_exception, attempt, reports>>

\* the destination object name computed from s3_dest_path and src.name
dest_obj(s3_dest_path, src_name) ==
    IF s3_dest_path = <<>> \/ s3_dest_path = <<"/">>
    THEN os_path_split_tail(src_name)
    ELSE IF str_endswith(s3_dest_path, <<"/">>)
    THEN os_path_join(s3_dest_path, os_path_split_tail(src_name))
    ELSE str_lstrip_slash(s3_dest_path)

ResolveKey ==
    /\ pc = "resolve"
    /\ s3_dest_obj' = dest_obj(args.dest.path, args.src_name)
    /\ pc' = "get_object"
    /\ UNCHANGED <<pool_vars, args, dict_order, chunk_size, config, callback_fn, retry_interval,
                   last_exception, attempt, reports, log, outcome>>

\* an existing object is overwritten whether or not force is set
object_probe_verdict_forced(res, force) ==
    IF res = "ok" \/ res = "NoSuchKey" THEN "pass" ELSE "raise"

\* what the "except ClientError" clause and the else clause of the object
\* probe decide: "pass", "raise" (the probe's exception) or "exists"
object_probe_verdict(res, force) ==
    IF res = "ok" THEN (IF force THEN "pass" ELSE "exists")
    ELSE IF res = "NoSuchKey" THEN "pass"
    ELSE "raise"

\* client.get_object(Bucket=s3_bucket, Key=s3_dest_obj)
\* "NoSuchKey" and "AccessDenied" are ClientErrors, whose text holds the code
GetObject ==
    /\ pc = "get_object"
    /\ \E res \in {"ok", "NoSuchKey", "AccessDenied", "EndpointConnectionError"} :
        /\ log' = Append(log, [Ev("get_object", res) EXCEPT
                                  !.bucket = args.dest.netloc, !.key = s3_dest_obj])
        /\ LET verdict == object_probe_verdict(res, args.force)
           IN  IF verdict = "pass"
               THEN pc' = "setup" /\ UNCHANGED outcome
               ELSE IF verdict = "exists"
               THEN Raise([Exc("RuntimeError", "alredy exists. Use --force to overwrite!")
                              EXCEPT !.key = s3_dest_obj, !.bucket = args.dest.netloc])
               ELSE Raise(Exc(res, "get_object"))
    /\ UNCHANGED <<pool_vars, args, dict_order, chunk_size, s3_dest_obj, config, callback_fn,
                   retry_interval, last_exception, attempt, reports>>

\* the threshold follows the split size
SetupTransfer_threshold_from_chunk ==
    /\ pc = "setup"
    /\ config' = [multipart_threshold |-> chunk_size,
                  multipart_chunksize |-> chunk_size,
                  max_concurrency |-> args.num_processes]
    /\ callback_fn' = IF args.verbose THEN ProgressPercentage(args.src_name) ELSE None
    /\ retry_interval' = args.retry_sleep
    /\ last_exception' =
          Exc("RuntimeError", "Upload and retries failed, but without raising an exception?!")
    /\ attempt' = 0
    /\ pc' = "loop"
    /\ UNCHANGED <<pool_vars, args, dict_order, chunk_size, s3_dest_obj, reports, log, outcome>>

\* config, transfer, callback_fn, retry_interval, last_exception
SetupTransfer ==
    /\ pc = "setup"
    /\ config' = [multipart_threshold |-> chunk_bytes_default(DEFAULT_chunk_threshold).value,
                  multipart_chunksize |-> chunk_size,
                  max_concurrency |-> args.num_processes]
    /\ callback_fn' = IF args.verbose THEN ProgressPercentage(args.src_name) ELSE None
    /\ retry_interval' = args.retry_sleep
    /\ last_exception' =
          Exc("RuntimeError", "Upload and retries failed, but without raising an exception?!")
    /\ attempt' = 0
    /\ pc' = "loop"
    /\ UNCHANGED <<pool_vars, args, dict_order, chunk_size, s3_dest_obj, reports, log, outcome>>

\* one iteration too many
loop_continues_inclusive(i, max_tries) == i <= max_tries

\* for attempt in range(max_tries): is there another iteration?
loop_continues(i, max_tries) == i < max_tries

\* the counter is kept across attempts
callback_kept(cb, verbose, src_name) == cb

\* callback_fn after "except Exception as e"
callback_after_failure(cb, verbose, src_name) ==
    IF verbose THEN ProgressPercentage(src_name) ELSE cb

\* a constant delay
next_retry_interval_constant(r) == r

\* retry_interval *= 2
next_retry_interval(r) == r * 2

\* the loop takes another iteration: transfer.upload_file(...) is called
UploadStart ==
    /\ pc = "loop"
    /\ loop_continues(attempt, args.max_tries)
    /\ log' = Append(log, [Ev("upload_start", "") EXCEPT
                              !.attempt = attempt + 1,
                              !.seen = callback_fn.seen_so_far,
                              !.file = args.src_name,
                              !.bucket = args.dest.netloc,
                              !.key = s3_dest_obj])
    /\ reports' = 0
    /\ pc' = "uploading"
    /\ UNCHANGED <<pool_vars, args, dict_order, chunk_size, s3_dest_obj, config, callback_fn,
                   retry_interval, last_exception, attempt, outcome>>

\* upload_file reports transferred bytes through callback_fn
ProgressCallback ==
    /\ pc = "uploading"
    /\ ~callback_fn.is_None
    /\ reports < MaxReports
    /\ \E bytes_amount \in 1..MaxBytes :
        callback_fn' = ProgressPercentage_call(callback_fn, bytes_amount)
    /\ reports' = reports + 1
    /\ UNCHANGED <<pool_vars, args, dict_order, pc, chunk_size, s3_dest_obj, config, retry_interval,
                   last_exception, attempt, log, outcome>>

\* upload_file returns: the else clause returns from main
UploadReturn ==
    /\ pc = "uploading"
    /\ log' = Append(log, [Ev("upload_ok", "") EXCEPT !.attempt = attempt + 1])
    /\ pc' = "done"
    /\ outcome' = [status |-> "returned", exc |-> NoExc]
    /\ UNCHANGED <<pool_vars, args, dict_order, chunk_size, s3_dest_obj, config, callback_fn,
                   retry_interval, last_exception, attempt, reports>>

\* after a failure the transfer is made serial
UploadRaise_serial ==
    /\ pc = "uploading"
    /\ \E type \in ErrTypes :
        LET e == [Exc(type, "upload_file") EXCEPT !.at = attempt + 1]
        IN  /\ log' = Append(log, [Ev("upload_fail", "") EXCEPT
                                      !.attempt = attempt + 1,
                                      !.exc = e,
                                      !.progressed = callback_fn.seen_so_far > 0])
            /\ last_exception' = e
    /\ callback_fn' = IF args.verbose THEN ProgressPercentage(args.src_name) ELSE callback_fn
    /\ config' = [config EXCEPT !.max_concurrency = 1]
    /\ pc' = "sleep"
    /\ UNCHANGED <<pool_vars, args, dict_order, chunk_size, s3_dest_obj, retry_interval,
                   attempt, reports, outcome>>

\* upload_file raises e: the except clause
UploadRaise ==
    /\ pc = "uploading"
    /\ \E type \in ErrTypes :
        LET e == [Exc(type, "upload_file") EXCEPT !.at = attempt + 1]
        IN  /\ log' = Append(log, [Ev("upload_fail", "") EXCEPT
                                      !.attempt = attempt + 1,
                                      !.exc = e,
                                      !.progressed = callback_fn.seen_so_far > 0])
            /\ last_exception' = e
    /\ callback_fn' = callback_after_failure(callback_fn, args.verbose, args.src_name)
    /\ pc' = "sleep"
    /\ UNCHANGED <<pool_vars, args, dict_order, chunk_size, s3_dest_obj, config, retry_interval,
                   attempt, reports, outcome>>

\* time.sleep(retry_interval); retry_interval *= 2; back to the loop head
Sleep ==
    /\ pc = "sleep"
    /\ log' = Append(log, [Ev("sleep", "") EXCEPT !.secs = retry_interval,
                                                  !.attempt = attempt + 1])
    /\ retry_interval' = next_retry_interval(retry_interval)
    /\ attempt' = attempt + 1
    /\ pc' = "loop"
    /\ UNCHANGED <<pool_vars, args, dict_order, chunk_size, s3_dest_obj, config, callback_fn,
                   last_exception, reports, outcome>>

\* the error raised is the one last_exception was initialised with
RaiseLast_generic ==
    /\ pc = "loop"
    /\ ~loop_continues(attempt, args.max_tries)
    /\ Raise(Exc("RuntimeError",
                 "Upload and retries failed, but without raising an exception?!"))
    /\ UNCHANGED <<pool_vars, args, dict_order, chunk_size, s3_dest_obj, config, callback_fn,
                   retry_interval, last_exception, attempt, reports, log>>

\* the loop is exhausted: raise last_exception
RaiseLast ==
    /\ pc = "loop"
    /\ ~loop_continues(attempt, args.max_tries)
    /\ Raise(last_exception)
    /\ UNCHANGED <<pool_vars, args, dict_order, chunk_size, s3_dest_obj, config, callback_fn,
                   retry_interval, last_exception, attempt, reports, log>>

Next ==
    \/ ParseChunk
    \/ CheckScheme
    \/ HeadBucket
    \/ ResolveKey
    \/ GetObject
    \/ SetupTransfer
    \/ UploadStart
    \/ ProgressCallback
    \/ UploadReturn
    \/ UploadRaise
    \/ Sleep
    \/ RaiseLast

Spec == Init /\ [][Next]_vars

-----------------------------------------------------------------------------
(* chunk_bytes on its own: main's first statement on every size expression *)

DefaultArgs(chunks, src_names, dests) ==
    {a \in Args(src_names, dests, chunks, {DEFAULT_max_tries}, {DEFAULT_retry_sleep}) :
        ~a.force /\ ~a.verbose}

InitChunk ==
    Entry(DefaultArgs(ChunkStrings, { <<"f">> },
                      {d \in MainDests : d.scheme = "s3" /\ d.path = <<>>}),
          DictOrders)

NextChunk == ParseChunk

SpecChunk == InitChunk /\ [][NextChunk]_vars

-----------------------------------------------------------------------------
(* The key resolution on its own: main after a successful bucket probe, on
   every destination path *)

InitKey ==
    /\ args \in DefaultArgs({DEFAULT_split}, SrcNames,
                            {d \in Dests(Strings(PathChars, MaxPathLen)) : d.scheme = "s3"})
    /\ dict_order = LiteralOrder
    /\ pc = "resolve"
    /\ chunk_size = chunk_bytes_default(args.chunk).value
    /\ s3_dest_obj = <<>>
    /\ config = NoConfig
    /\ callback_fn = None
    /\ retry_interval = 0
    /\ last_exception = NoExc
    /\ attempt = 0
    /\ reports = 0
    /\ log = << [Ev("head_bucket", "ok") EXCEPT !.bucket = args.dest.netloc] >>
    /\ outcome = Running
    /\ NoPool

NextKey == ResolveKey

SpecKey == InitKey /\ [][NextKey]_vars

-----------------------------------------------------------------------------
(* ProgressPercentage.__call__ step by step: the worker threads of one
   upload_file call the same callback_fn concurrently *)

IdleWorker == [pc |-> "idle", bytes_amount |-> 0, read |-> 0, calls |-> 0]

\* the lock is taken whoever holds it
lock_ignored(l) == TRUE

\* with self._lock: the lock can be taken when no thread holds it
lock_available(l) == l = 0

\* main inside the upload_file of its first attempt, verbose set
InitProgress ==
    /\ args \in {a \in Args({ <<"f">> }, {d \in MainDests : d.scheme = "s3" /\ d.path # <<>>},
                            {DEFAULT_split}, {DEFAULT_max_tries}, {DEFAULT_retry_sleep}) :
                    a.verbose /\ ~a.force}
    /\ dict_order = LiteralOrder
    /\ pc = "uploading"
    /\ chunk_size = chunk_bytes_default(args.chunk).value
    /\ s3_dest_obj = dest_obj(args.dest.path, args.src_name)
    /\ config = [multipart_threshold |-> chunk_bytes_default(DEFAULT_chunk_threshold).value,
                 multipart_chunksize |-> chunk_size,
                 max_concurrency |-> args.num_processes]
    /\ callback_fn = ProgressPercentage(args.src_name)
    /\ retry_interval = args.retry_sleep
    /\ last_exception =
          Exc("RuntimeError", "Upload and retries failed, but without raising an exception?!")
    /\ attempt = 0
    /\ reports = 0
    /\ log = << [Ev("head_bucket", "ok") EXCEPT !.bucket = args.dest.netloc],
                [Ev("get_object", "NoSuchKey") EXCEPT
                    !.bucket = args.dest.netloc, !.key = s3_dest_obj],
                [Ev("upload_start", "") EXCEPT
                    !.attempt = 1, !.file = args.src_name,
                    !.bucket = args.dest.netloc, !.key = s3_dest_obj] >>
    /\ outcome = Running
    /\ lock = 0
    /\ \E n \in 1..MaxThreads : workers = [t \in 1..n |-> IdleWorker]
    /\ stdout = NoLine
    /\ reported = 0

main_vars == <<args, dict_order, pc, chunk_size, s3_dest_obj, config, retry_interval,
               last_exception, attempt, log, outcome>>

\* a thread calls callback_fn(bytes_amount)
PP_Call(t) ==
    /\ pc = "uploading"
    /\ ~callback_fn.is_None
    /\ workers[t].pc = "idle"
    /\ reports < MaxReports
    /\ \E bytes_amount \in 1..MaxBytes :
        /\ workers' = [workers EXCEPT ![t].pc = "acquire", ![t].bytes_amount = bytes_amount]
        /\ reported' = reported + bytes_amount
    /\ reports' = reports + 1
    /\ UNCHANGED <<main_vars, callback_fn, lock, stdout>>

\* with self._lock: enter
PP_Acquire(t) ==
    /\ workers[t].pc = "acquire"
    /\ lock_available(lock)
    /\ lock' = t
    /\ workers' = [workers EXCEPT ![t].pc = "read"]
    /\ UNCHANGED <<main_vars, reports, callback_fn, stdout, reported>>

\* self._seen_so_far += bytes_amount: the attribute is read
PP_Read(t) ==
    /\ workers[t].pc = "read"
    /\ workers' = [workers EXCEPT ![t].pc = "write", ![t].read = callback_fn.seen_so_far]
    /\ UNCHANGED <<main_vars, reports, callback_fn, lock, stdout, reported>>

\* self._seen_so_far += bytes_amount: the sum is stored
PP_Write(t) ==
    /\ workers[t].pc = "write"
    /\ callback_fn' = [callback_fn EXCEPT
                          !.seen_so_far = workers[t].read + workers[t].bytes_amount]
    /\ workers' = [workers EXCEPT ![t].pc = "render"]
    /\ UNCHANGED <<main_vars, reports, lock, stdout, reported>>

\* sys.stdout.write(...); sys.stdout.flush(): the line shows the counter (the
\* size and the percentage follow from the file and the counter)
PP_Render(t) ==
    /\ workers[t].pc = "render"
    /\ stdout' = [filename |-> callback_fn.filename, seen_so_far |-> callback_fn.seen_so_far]
    /\ workers' = [workers EXCEPT ![t].pc = "release"]
    /\ UNCHANGED <<main_vars, reports, callback_fn, lock, reported>>

\* with self._lock: leave; the call returns
PP_Release(t) ==
    /\ workers[t].pc = "release"
    /\ lock' = 0
    /\ workers' = [workers EXCEPT ![t].pc = "idle", ![t].calls = @ + 1]
    /\ UNCHANGED <<main_vars, reports, callback_fn, stdout, reported>>

NextProgress ==
    \/ \E t \in DOMAIN workers : PP_Call(t)
    \/ \E t \in DOMAIN workers : PP_Acquire(t)
    \/ \E t \in DOMAIN workers : PP_Read(t)
    \/ \E t \in DOMAIN workers : PP_Write(t)
    \/ \E t \in DOMAIN workers : PP_Render(t)
    \/ \E t \in DOMAIN workers : PP_Release(t)

SpecProgress == InitProgress /\ [][NextProgress]_vars

-----------------------------------------------------------------------------
(* Properties of the retry loop *)

\* the positions in the log of the operations op among the first n entries
OpsBefore(op, n) == {i \in 1..n : log[i].op = op}

\* the position of the k-th operation op of the log
Nth(op, k) == CHOOSE i \in Ops(op) : Cardinality(OpsBefore(op, i)) = k

Pow2(n) == IntPow(2, n)

GenericError ==
    Exc("RuntimeError", "Upload and retries failed, but without raising an exception?!")

\* C1: with max_tries >= 1, main starts at most max_tries upload attempts; an
\* attempt starts only when every earlier attempt has failed; and a
\* successful attempt is the last thing main does: main has returned, and no
\* upload or sleep follows it in the log.
C1_AtMostMaxAttempts ==
    args.max_tries >= 1 =>
        /\ Count("upload_start") <= args.max_tries
        /\ \A i \in Ops("upload_start") :
              /\ Cardinality(OpsBefore("upload_fail", i)) =
                 Cardinality(OpsBefore("upload_start", i - 1))
              /\ OpsBefore("upload_ok", i) = {}
        /\ \A i \in Ops("upload_ok") :
              /\ i = Len(log)
              /\ pc = "done"
              /\ outcome.status = "returned"

C1_Witness ==
    /\ args.max_tries = 3
    /\ Count("upload_start") = 3
    /\ Count("upload_fail") = 2
    /\ outcome.status = "returned"

\* C2: when the first N attempts failed and attempt N+1 succeeded, the log
\* holds exactly N sleeps, and the i-th sleep lasts retry_sleep * 2^(i-1).
C2_BackoffDoubles ==
    Count("upload_ok") = 1 =>
        LET N == Count("upload_fail")
        IN  /\ N < args.max_tries
            /\ Count("sleep") = N
            /\ \A i \in 1..N : log[Nth("sleep", i)].secs = args.retry_sleep * Pow2(i - 1)

C2_Witness ==
    /\ Count("upload_ok") = 1
    /\ Count("upload_fail") = 2
    /\ args.retry_sleep = 10
    /\ log[Nth("sleep", 1)].secs = 10
    /\ log[Nth("sleep", 2)].secs = 20

\* C3: sleeps happen only between attempts: when main has ended, every sleep
\* of the log is followed by an upload attempt, and when all max_tries
\* attempts failed there are exactly max_tries - 1 sleeps.
C3_SleepsOnlyBetweenAttempts ==
    pc = "done" =>
        /\ \A i \in Ops("sleep") : i < Len(log) /\ log[i + 1].op = "upload_start"
        /\ (args.max_tries >= 1 /\ Count("upload_fail") = args.max_tries)
              => Count("sleep") = args.max_tries - 1

\* C4: once all max_tries >= 1 attempts have failed, main makes no further
\* attempt, and when it ends it raises the exception of the last attempt:
\* not that of an earlier attempt, and not the generic error.
C4_LastErrorSurfaced ==
    (args.max_tries >= 1 /\ Count("upload_fail") = args.max_tries) =>
        /\ pc \in {"sleep", "loop", "done"}
        /\ Count("upload_start") = args.max_tries
        /\ pc = "done" =>
              /\ outcome.status = "raised"
              /\ outcome.exc = log[Nth("upload_fail", args.max_tries)].exc
              /\ outcome.exc # GenericError
              /\ \A k \in 1..(args.max_tries - 1) :
                    outcome.exc # log[Nth("upload_fail", k)].exc

C4_Witness ==
    /\ pc = "done"
    /\ args.max_tries = 3
    /\ Count("upload_fail") = 3
    /\ log[Nth("upload_fail", 1)].exc.type = "IOError"
    /\ log[Nth("upload_fail", 2)].exc.type = "S3UploadFailedError"
    /\ outcome.exc.type = "IOError"
    /\ outcome.exc.at = 3

\* C5: when the object probe finds the key and force is false, main raises
\* the "already exists" error, which names the key probed and the bucket, and
\* the run holds no upload attempt and no sleep.
C5_ExistsWithoutForce ==
    \A i \in Ops("get_object") :
        (log[i].res = "ok" /\ ~args.force) =>
            /\ pc = "done"
            /\ outcome.status = "raised"
            /\ outcome.exc.type = "RuntimeError"
            /\ outcome.exc.text = "alredy exists. Use --force to overwrite!"
            /\ outcome.exc.key = log[i].key
            /\ outcome.exc.bucket = args.dest.netloc
            /\ Count("upload_start") = 0
            /\ Count("sleep") = 0

C5_Witness ==
    /\ pc = "done"
    /\ ~args.force
    /\ Count("get_object") = 1
    /\ log[Nth("get_object", 1)].res = "ok"
    /\ outcome.exc.key = <<"a">>
    /\ outcome.exc.bucket = "bucket"

-----------------------------------------------------------------------------
(* Properties of the configuration checks and the pre-flight probes *)

\* the arguments hold a configuration error: a size expression chunk_bytes
\* rejects, or a destination whose scheme is not s3
ConfigurationError ==
    \/ ~chunk_bytes_default(args.chunk).ok
    \/ args.dest.scheme # "s3"

\* C6: the bucket probe is never issued twice; a run that passed the
\* configuration checks and went beyond the probe, or ended, issued it exactly
\* once; and a failed probe is the only operation of its run: main has raised
\* the probe's exception, with no object probe, upload attempt or sleep.
C6_BucketProbeOnce ==
    /\ Count("head_bucket") <= 1
    /\ (~ConfigurationError /\ pc \notin {"chunk", "scheme", "head_bucket"})
          => Count("head_bucket") = 1
    /\ \A i \in Ops("head_bucket") :
          /\ i = 1
          /\ log[i].res # "ok" =>
                /\ Len(log) = 1
                /\ pc = "done"
                /\ outcome.status = "raised"
                /\ outcome.exc.type = log[i].res

C6_Witness ==
    /\ pc = "done"
    /\ log # <<>>
    /\ log[1].op = "head_bucket"
    /\ log[1].res = "ClientError"
    /\ outcome.exc.type = "ClientError"

\* C7: with a configuration error in the arguments, main never calls the
\* storage client and never sleeps, and it ends by raising.
C7_ConfigurationErrorFirst ==
    ConfigurationError =>
        /\ log = <<>>
        /\ pc \in {"chunk", "scheme", "done"}
        /\ pc = "done" => outcome.status = "raised"

C7_Witness ==
    /\ pc = "done"
    /\ args.dest.scheme = "http"
    /\ chunk_bytes_default(args.chunk).ok
    /\ outcome.exc = Exc("ValueError", "Destination needs to be an S3 url!")
    /\ log = <<>>

C7_WitnessSize ==
    /\ pc = "done"
    /\ args.dest.scheme = "s3"
    /\ args.chunk = <<"5", ".", "5">>
    /\ outcome.status = "raised"
    /\ log = <<>>

\* C10: with verbose set, the counter of callback_fn is zero whenever an
\* upload attempt starts, the first and every retry.
C10_ProgressStartsAtZero ==
    args.verbose =>
        /\ \A i \in Ops("upload_start") : log[i].seen = 0
        /\ pc = "loop" => (~callback_fn.is_None /\ callback_fn.seen_so_far = 0)

C10_Witness ==
    /\ args.verbose
    /\ pc = "uploading"
    /\ Count("upload_start") = 2
    /\ log[Nth("upload_fail", 1)].progressed
    /\ log[Nth("upload_start", 2)].seen = 0

-----------------------------------------------------------------------------
(* Properties of the key resolution *)

\* the base name of the source file
BaseName == os_path_split_tail(args.src_name)

\* C8: the key is the base name of the source for the paths "" and "/"; for a
\* path that ends with "/", the path without its leading "/" followed by the
\* base name; otherwise the path without its leading slashes; and it never
\* begins with "/".
C8_KeyResolution ==
    pc = "get_object" =>
        LET path == args.dest.path
        IN  /\ (path = <<>> \/ path = <<"/">>) => s3_dest_obj = BaseName
            /\ (Len(path) > 1 /\ path[Len(path)] = "/")
                  => s3_dest_obj = Tail(path) \o BaseName
            /\ (Len(path) > 1 /\ path[Len(path)] # "/")
                  => s3_dest_obj = str_lstrip_slash(path)
            /\ (s3_dest_obj = <<>> \/ s3_dest_obj[1] # "/")

-----------------------------------------------------------------------------
(* Properties of chunk_bytes *)

\* the value of a string of digits, digit by digit
RECURSIVE RefInt(_)
RefInt(s) == IF s = <<>> THEN 0 ELSE DigitVal(s[1]) * IntPow(10, Len(s) - 1) + RefInt(Tail(s))

AllIn(s, cs) == \A i \in 1..Len(s) : s[i] \in cs

\* n * unit, for the unit named by a key of the table
RefBytes(n, unit) == BigMul(BigOfInt(n), UNIT_MULTIPLIERS(unit))

\* what main's first statement made of the size expression
Parsed == pc # "chunk"

ParsedAs(v) == pc = "scheme" /\ chunk_size = v

Rejected == pc = "done" /\ outcome.status = "raised"

\* C9: chunk_bytes gives n * 1024^2 for a string of digits n; n * the unit's
\* multiplier for digits n, optional whitespace and a key of the unit table;
\* n * 1024^2 for digits n and whitespace; and it rejects every string that
\* holds a decimal point.
C9_SizeFunction ==
    Parsed =>
        LET s == args.chunk
        IN  /\ (s # <<>> /\ AllIn(s, DigitChars))
                  => ParsedAs(RefBytes(RefInt(s), <<"M", "i", "B">>))
            /\ \A d \in 1..Len(s) : \A w \in 0..(Len(s) - d) :
                  LET digits == SubSeq(s, 1, d)
                      spaces == SubSeq(s, d + 1, d + w)
                      rest == SubSeq(s, d + w + 1, Len(s))
                  IN  (AllIn(digits, DigitChars) /\ AllIn(spaces, WhitespaceChars)) =>
                          /\ rest \in UNIT_NAMES => ParsedAs(RefBytes(RefInt(digits), rest))
                          /\ (rest = <<>> /\ w > 0)
                                => ParsedAs(RefBytes(RefInt(digits), <<"M", "i", "B">>))
            /\ (\E i \in 1..Len(s) : s[i] = ".") => Rejected

C9_Witness ==
    /\ args.chunk = <<"0", "7", " ", " ", "K", "B">>
    /\ pc = "scheme"
    /\ chunk_size = BigOfInt(7 * 1024)

C9_WitnessPoint ==
    /\ args.chunk = <<"5", ".", "5">>
    /\ pc = "done"
    /\ outcome.exc.type = "ValueError"

-----------------------------------------------------------------------------
(* Properties of the progress counter under concurrent calls *)

\* threads between taking and releasing the lock
InCall == {t \in DOMAIN workers : workers[t].pc \in {"read", "write", "render", "release"}}

\* the bytes of the calls made but not yet stored
RECURSIVE PendingBytes(_)
PendingBytes(ts) ==
    IF ts = {} THEN 0
    ELSE LET t == CHOOSE x \in ts : TRUE
         IN  (IF workers[t].pc \in {"acquire", "read", "write"}
              THEN workers[t].bytes_amount ELSE 0) + PendingBytes(ts \ {t})

AllReturned == \A t \in DOMAIN workers : workers[t].pc = "idle"

\* C11: the read, add, store and render of one call never overlap another's;
\* no update is lost: the counter is the sum of the amounts of the calls that
\* have stored; and when every call has returned the counter is the sum of
\* all amounts reported, which is what the last line written shows.
C11_NoLostUpdate ==
    /\ Cardinality(InCall) <= 1
    /\ callback_fn.seen_so_far + PendingBytes(DOMAIN workers) = reported
    /\ AllReturned =>
          /\ callback_fn.seen_so_far = reported
          /\ reported > 0 => stdout.seen_so_far = reported

C11_Witness ==
    /\ AllReturned
    /\ Len(workers) = 2
    /\ workers[1].calls = 1
    /\ workers[2].calls = 1
    /\ reported = 3
    /\ callback_fn.seen_so_far = 3

-----------------------------------------------------------------------------
(* Properties of the transfer configuration *)

\* main has built the TransferConfig
Configured == config # NoConfig

\* C12 as claimed: the multipart threshold of the configuration equals its
\* part size, for every accepted split-size expression.
C12_ThresholdEqualsPartSize ==
    Configured => config.multipart_threshold = config.multipart_chunksize

\* C12 as amended: the multipart threshold is always the byte count of the
\* default threshold expression "50 MiB", 50 * 1024^2, whatever the split
\* size; the part size is the byte count of the split-size expression; so the
\* two are equal exactly when the split size denotes 50 * 1024^2 bytes.
C12_ThresholdIsDefault ==
    Configured =>
        /\ config.multipart_threshold = BigOfInt(50 * 1024 * 1024)
        /\ config.multipart_chunksize = chunk_bytes_default(args.chunk).value
        /\ (config.multipart_threshold = config.multipart_chunksize)
              <=> (chunk_bytes_default(args.chunk).value = BigOfInt(50 * 1024 * 1024))

C12_Witness ==
    /\ Configured
    /\ pc = "uploading"
    /\ args.chunk = <<"5">>
    /\ config.multipart_chunksize = BigOfInt(5 * 1024 * 1024)
    /\ config.multipart_threshold # config.multipart_chunksize

\* a split size written differently that denotes the same 50 * 1024^2 bytes
C12_WitnessEqual ==
    /\ Configured
    /\ args.chunk = <<"5", "1", "2", "0", "0", "K", "i", "B">>
    /\ config.multipart_threshold = config.multipart_chunksize

-----------------------------------------------------------------------------
(* Properties of the pre-flight checks as a gate of the upload *)

\* the bucket probe succeeded, and the object probe found no object or found
\* one with force set
PreflightPassed ==
    /\ \E i \in Ops("head_bucket") : log[i].res = "ok"
    /\ \E i \in Ops("get_object") :
          log[i].res = "NoSuchKey" \/ (log[i].res = "ok" /\ args.force)

\* C14: an upload attempt starts only after the pre-flight checks passed; a
\* run whose pre-flight checks passed does make a first upload attempt; and
\* an object probe that fails with anything but not-found ends the run with
\* its error and without an upload attempt.
C14_PreflightGatesUpload ==
    /\ Count("upload_start") > 0 => PreflightPassed
    /\ (PreflightPassed /\ pc = "done") => Count("upload_start") > 0
    /\ \A i \in Ops("get_object") :
          log[i].res \notin {"ok", "NoSuchKey"} =>
              /\ pc = "done"
              /\ outcome.status = "raised"
              /\ outcome.exc.type = log[i].res
              /\ Count("upload_start") = 0

\* C16: for every max_tries, 0 and negative values included, a run that got
\* past the pre-flight checks and ended has returned or has made at least one
\* upload attempt, and the error it raises is never the generic one.
C16_NeverGenericError ==
    (Configured /\ pc = "done") =>
        /\ (outcome.status = "returned" \/ Count("upload_start") > 0)
        /\ outcome.exc # GenericError

-----------------------------------------------------------------------------
(* Properties of the case-insensitive unit lookup *)

\* the keys of the unit table equal to a token when case is ignored
KeysMatching(token) == {k \in UNIT_NAMES : str_lower(k) = str_lower(token)}

\* the token without the "s" of a plural "...bytes"
Singular(token) ==
    IF Len(token) >= 5 /\ str_lower(SubSeq(token, Len(token) - 4, Len(token)))
                            = <<"b", "y", "t", "e", "s">>
    THEN SubSeq(token, 1, Len(token) - 1)
    ELSE token

\* C15: when the unit token of a size expression is not a key of the unit
\* table, every key that matches it with case ignored gives the byte count
\* chunk_bytes returned: the result does not depend on the order of the scan.
C15_ScanOrderIrrelevant ==
    Parsed =>
        LET s == args.chunk
        IN  \A d \in 1..Len(s) : \A w \in 0..(Len(s) - d) :
                LET digits == SubSeq(s, 1, d)
                    spaces == SubSeq(s, d + 1, d + w)
                    token == SubSeq(s, d + w + 1, Len(s))
                IN  (/\ AllIn(digits, DigitChars)
                     /\ AllIn(spaces, WhitespaceChars)
                     /\ token # <<>>
                     /\ \A i \in 1..Len(token) :
                           token[i] \notin WhitespaceChars \cup DigitChars \cup {"."}
                     /\ Singular(token) \notin UNIT_NAMES)
                    => \A k \in KeysMatching(Singular(token)) :
                           ParsedAs(RefBytes(RefInt(digits), k))

-----------------------------------------------------------------------------
(* Properties of the state carried from one attempt to the next *)

\* every upload attempt of the log was given the source file, the bucket and
\* the key of the first
SameTarget ==
    \A i \in Ops("upload_start") :
        /\ log[i].file = args.src_name
        /\ log[i].bucket = args.dest.netloc
        /\ log[i].key = log[Nth("upload_start", 1)].key

\* C17: every upload attempt is started with the same source file, bucket and
\* key; and from the setup of the transfer on, a step of main (an attempt
\* starting, reporting progress, failing, the sleep) leaves the arguments,
\* the part size, the key and the configuration as they are: it changes only
\* the delay, the remembered exception, the progress counter, the position
\* in the loop and the history.
C17_AttemptsFromScratch ==
    [][Configured =>
          /\ args' = args
          /\ dict_order' = dict_order
          /\ chunk_size' = chunk_size
          /\ s3_dest_obj' = s3_dest_obj
          /\ config' = config
          /\ SameTarget']_vars

C17_Witness ==
    /\ pc = "uploading"
    /\ args.verbose
    /\ Count("upload_start") = 3
    /\ Count("upload_fail") = 2
    /\ log[Nth("upload_fail", 1)].progressed
    /\ \A i \in Ops("upload_start") : log[i].key = <<"a">> /\ log[i].file = <<"d", "/", "f">>

=============================================================================
